---- MODULE Spec2Model ----
(***************************************************************************)
(* Model of src/telemetry_overlay.py: the rolling telemetry windows of     *)
(* IRacingTelemetry and the timer-driven redraw of ApplicationWindow.      *)
(*                                                                         *)
(* Numbers.  The program stores numpy float64 values; the model uses       *)
(* integers: SessionTime in seconds, Speed in m/s, distance in metres,     *)
(* Throttle/Brake/Steer at the end points of their ranges.  Rounding of    *)
(* floating-point products is outside the model.                           *)
(***************************************************************************)
EXTENDS Integers, Sequences, FiniteSets, TLC

VARIABLES telemetry,   \* the seven windows of IRacingTelemetry
          ir,          \* the telemetry source as read by the latest tick
          checkbox,    \* the five visibility check boxes
          plotted,     \* the series drawn by the latest redraw
          xlim,        \* the x-axis range set by the latest redraw
          ticks,       \* number of timer ticks so far
          clicks       \* number of check box clicks so far

vars == <<telemetry, ir, checkbox, plotted, xlim, ticks, clicks>>

\* ---- program constants ----
history_length == 200
ScrollAfter == 150

\* ---- bounds of the exploration ----
\* With MaxTicks < history_length the entries evicted at index 0 are still
\* zeros of the initial fill.
MaxTicks == 3      \* timer ticks when only the timer runs
MaxRedraws == 2    \* timer ticks when the user also clicks
MaxClicks == 1
MaxTime == 2
MaxSessions == 2

Windows == {"throttle", "brake", "steer", "speed", "gear", "distance", "time"}
Channels == {"throttle", "brake", "steer", "speed", "gear"}

\* Values the source may report on one tick (Throttle, Brake, Steer, Speed,
\* Gear): full throttle turning left in third gear, braking to a stop
\* turning right, and reversing with a negative reported speed.
Samples ==
  { [Throttle |-> 1, Brake |-> 0, Steer |-> -1, Speed |-> 80, Gear |-> 3],
    [Throttle |-> 0, Brake |-> 1, Steer |-> 1,  Speed |-> 0,  Gear |-> 2],
    [Throttle |-> 1, Brake |-> 1, Steer |-> 0,  Speed |-> -5, Gear |-> -1] }
Times == {0, 1, MaxTime}

\* np.zeros(n)
zeros(n) == [i \in 1 .. n |-> 0]

\* np.roll(a, 1): rotation in the wrong direction
roll_right(a) == [i \in 1 .. Len(a) |-> IF i > 1 THEN a[i - 1] ELSE a[Len(a)]]

\* a[1:]: the first element dropped and nothing put in its place
roll_drop(a) == [i \in 1 .. Len(a) - 1 |-> a[i + 1]]

\* np.roll(a, -1): rotate left by one, the first element wraps to the end
roll(a) == [i \in 1 .. Len(a) |-> IF i < Len(a) THEN a[i + 1] ELSE a[1]]

\* a[-1] = v and the reads a[-1], a[-2]
setLast(a, v) == [a EXCEPT ![Len(a)] = v]
last(a) == a[Len(a)]
prev(a) == a[Len(a) - 1]

\* IRacingTelemetry.reset_data
reset_data == [w \in Windows |-> zeros(history_length)]

\* distance integrated whatever the sign of the speed
distance_step_signed(t) ==
  [t EXCEPT !.distance =
     setLast(@, prev(t.distance)
                  + last(t.speed) * (last(t.time) - prev(t.time)))]

\* distance integrated with the speed of the previous sample
distance_step_prevspeed(t) ==
  IF last(t.speed) > 0
    THEN [t EXCEPT !.distance =
            setLast(@, prev(t.distance)
                         + prev(t.speed) * (last(t.time) - prev(t.time)))]
    ELSE [t EXCEPT !.distance = setLast(@, prev(t.distance))]

\* the distance branch of IRacingTelemetry.update (lines 47-53), applied to
\* the windows after the roll and the assignment of the new readings
distance_step(t) ==
  IF Len(t.time) > 1
    THEN LET time_delta == last(t.time) - prev(t.time)
         IN IF last(t.speed) > 0
              THEN [t EXCEPT !.distance =
                      setLast(@, prev(t.distance) + last(t.speed) * time_delta)]
              ELSE [t EXCEPT !.distance = setLast(@, prev(t.distance))]
    ELSE t

\* the assignments of the new readings (lines 40-45)
read_source(t, src) ==
  [t EXCEPT !.throttle = setLast(@, src.Throttle),
            !.brake    = setLast(@, src.Brake),
            !.steer    = setLast(@, src.Steer),
            !.speed    = setLast(@, src.Speed),
            !.gear     = setLast(@, src.Gear),
            !.time     = setLast(@, src.SessionTime)]

\* a disconnect that resets the input channels only
update_partial(tel, src) ==
  IF ~src.is_connected
    THEN [reset_data EXCEPT !.distance = tel.distance, !.time = tel.time]
    ELSE distance_step(read_source([w \in Windows |-> roll(tel[w])], src))

\* sampling restricted to the channels whose check box is ticked
update_visible(tel, src) ==
  IF ~src.is_connected
    THEN reset_data
    ELSE LET t == distance_step(
                    read_source([w \in Windows |-> roll(tel[w])], src))
         IN [w \in Windows |->
               IF w \in Channels /\ ~checkbox[w] THEN tel[w] ELSE t[w]]

\* IRacingTelemetry.update
update(tel, src) ==
  IF ~src.is_connected
    THEN reset_data
    ELSE distance_step(read_source([w \in Windows |-> roll(tel[w])], src))

\* a scrolling range that trails the car instead of centring on it
set_xlim_trailing(d) ==
  IF d > ScrollAfter THEN <<d - 300, d>> ELSE <<0, 300>>

\* the x-axis limits chosen by update_plot (lines 193-197)
set_xlim(d) == IF d > ScrollAfter THEN <<d - ScrollAfter, d + ScrollAfter>>
                                  ELSE <<0, 300>>

\* the series drawn by update_plot (lines 175-191)
plot_selected(cb) == {c \in Channels : cb[c]}

\* ---- the telemetry source (irsdk) ----
Disconnected(n) ==
  [is_connected |-> FALSE, Throttle |-> 0, Brake |-> 0, Steer |-> 0,
   Speed |-> 0, Gear |-> 0, SessionTime |-> 0, SessionNum |-> n]

Connected(s, t, n) ==
  [is_connected |-> TRUE, Throttle |-> s.Throttle, Brake |-> s.Brake,
   Steer |-> s.Steer, Speed |-> s.Speed, Gear |-> s.Gear,
   SessionTime |-> t, SessionNum |-> n]

\* What the source may report next.  SessionTime never decreases within a
\* session; a smaller value than on the previous connected tick is the
\* start of a new session.
SourceNext(cur) ==
  {Disconnected(cur.SessionNum)} \cup
  {Connected(s, t, IF cur.is_connected /\ t < cur.SessionTime
                     THEN cur.SessionNum + 1 ELSE cur.SessionNum) :
     s \in Samples, t \in Times}

\* The state after ApplicationWindow.__init__: zero-filled windows, every
\* check box ticked, nothing drawn yet on the fresh axes (matplotlib's
\* default x range is (0, 1)), no tick has read the source.
Init ==
  /\ telemetry = reset_data
  /\ ir = Disconnected(1)
  /\ checkbox = [c \in Channels |-> TRUE]
  /\ plotted = {}
  /\ xlim = <<0, 1>>
  /\ ticks = 0
  /\ clicks = 0

\* ApplicationWindow.update_plot, fired by the 100 ms timer
update_plot(limit) ==
  /\ ticks < limit
  /\ \E src \in SourceNext(ir) :
       /\ src.SessionNum <= MaxSessions
       /\ ir' = src
       /\ telemetry' = update(telemetry, src)
  /\ plotted' = plot_selected(checkbox)
  /\ xlim' = set_xlim(last(telemetry'.distance))
  /\ ticks' = ticks + 1
  /\ UNCHANGED <<checkbox, clicks>>

\* the user clicks one of the check boxes of the drop-down menu
toggle(c) ==
  /\ clicks < MaxClicks
  /\ checkbox' = [checkbox EXCEPT ![c] = ~@]
  /\ clicks' = clicks + 1
  /\ UNCHANGED <<telemetry, ir, plotted, xlim, ticks>>

\* the whole program: the timer and the user
Next ==
  \/ update_plot(MaxRedraws)
  \/ \E c \in Channels : toggle(c)

Spec == Init /\ [][Next]_vars

\* the program left alone: only the timer fires
NextTimer == update_plot(MaxTicks)

SpecTimer == Init /\ [][NextTimer]_vars

\* ---- helpers of the properties ----
TickStep == ticks' = ticks + 1
ConnectedTick == TickStep /\ ir'.is_connected
FirstConnectedTick == ConnectedTick /\ ~ir.is_connected
Reading(src, c) ==
  CASE c = "throttle" -> src.Throttle
    [] c = "brake"    -> src.Brake
    [] c = "steer"    -> src.Steer
    [] c = "speed"    -> src.Speed
    [] c = "gear"     -> src.Gear
    [] c = "time"     -> src.SessionTime
Pairs == 1 .. (history_length - 1)
Shifted(old, new) ==
  /\ Len(new) = Len(old)
  /\ \A i \in 1 .. (Len(old) - 1) : new[i] = old[i + 1]

\* C1: after construction and after any sequence of update() calls all
\* seven windows have the same length, 200.
C1_WindowLength ==
  \A w \in Windows :
    /\ DOMAIN telemetry[w] = 1 .. 200
    /\ Len(telemetry[w]) = Len(telemetry.time)

C1_Witness ==
  /\ ticks = 3
  /\ ir.is_connected
  /\ ir.SessionNum = 1
  /\ telemetry.time[198] = 0
  /\ telemetry.time[199] = 1
  /\ telemetry.time[200] = 2

\* C2: an update() with the source disconnected leaves every one of the
\* seven windows equal to 200 zeros, whatever they held before.
C2_ResetOnDisconnect ==
  (ticks > 0 /\ ~ir.is_connected) =>
     \A w \in Windows : telemetry[w] = [i \in 1 .. 200 |-> 0]

\* a disconnected third tick after two connected ticks, the first of which
\* stored a positive time
C2_Witness ==
  /\ ticks = 3
  /\ ~ir.is_connected
  /\ ir.SessionNum = 2
  /\ telemetry.distance[200] = 0

\* C3: a connected update() drops index 0 of every window and appends one
\* entry, all seven windows by the same single step; the appended
\* throttle, brake, steer, speed, gear and time entries are the readings.
C3_Fifo ==
  [][ConnectedTick =>
       /\ \A w \in Windows : Shifted(telemetry[w], telemetry'[w])
       /\ \A c \in Windows \ {"distance"} :
            telemetry'[c][200] = Reading(ir', c)]_vars

C3_Witness ==
  /\ ticks = 3
  /\ ir.is_connected
  /\ telemetry.throttle[198] = 1 /\ telemetry.gear[198] = -1
  /\ telemetry.throttle[199] = 0 /\ telemetry.gear[199] = 2
  /\ telemetry.throttle[200] = 1 /\ telemetry.gear[200] = 3
  /\ telemetry.steer[200] = -1 /\ telemetry.brake[200] = 0
  /\ telemetry.speed[200] = 80 /\ telemetry.time[200] = 2

\* C4: for all consecutive indices i, i+1 with speed[i+1] > 0,
\* distance[i+1] >= distance[i].
C4_DistanceMonotone ==
  \A i \in Pairs :
    telemetry.speed[i + 1] > 0 =>
      telemetry.distance[i + 1] >= telemetry.distance[i]

\* C5: for all consecutive indices i, i+1 with speed[i+1] <= 0,
\* distance[i+1] = distance[i].
C5_DistanceFreeze ==
  \A i \in Pairs :
    telemetry.speed[i + 1] <= 0 =>
      telemetry.distance[i + 1] = telemetry.distance[i]

\* a reversing sample taken later than a moving one
C5_Witness ==
  /\ telemetry.speed[200] < 0
  /\ telemetry.time[200] > telemetry.time[199]
  /\ telemetry.distance[199] > 0
  /\ telemetry.distance[200] = telemetry.distance[199]

\* C6: a connected update() with new speed > 0 appends
\* previousDistance + newSpeed * (newSessionTime - previousTime).
C6_DistanceIntegration ==
  [][(ConnectedTick /\ ir'.Speed > 0) =>
       telemetry'.distance[200] =
         telemetry.distance[200]
           + ir'.Speed * (ir'.SessionTime - telemetry.time[200])]_vars

C6_Witness ==
  /\ ir.is_connected
  /\ ir.Speed = 80
  /\ telemetry.speed[199] = 0
  /\ telemetry.time[199] = 1 /\ telemetry.time[200] = 2
  /\ telemetry.distance[199] = 80 /\ telemetry.distance[200] = 160

\* C7: the first connected update() after the windows were zero-filled
\* appends distance 0, for every speed and sessionTime.
C7_FirstSampleZero ==
  [][FirstConnectedTick => telemetry'.distance[200] = 0]_vars

\* C8: every entry of the distance window is >= 0.
C8_DistanceNonNegative ==
  \A i \in 1 .. 200 : telemetry.distance[i] >= 0

\* C9: the five toggles are all true at startup, a toggle leaves the seven
\* windows unchanged, and a tick samples and advances every channel whose
\* toggle is off exactly as it does the others; the toggles decide only
\* which series are drawn.
C9_TogglesOnlyRendering ==
  /\ [](clicks = 0 => \A c \in Channels : checkbox[c])
  /\ [][/\ (checkbox' # checkbox) => (telemetry' = telemetry)
        /\ ConnectedTick =>
             \A c \in Channels :
               ~checkbox[c] =>
                 /\ Shifted(telemetry[c], telemetry'[c])
                 /\ telemetry'[c][200] = Reading(ir', c)
                 /\ c \notin plotted']_vars

C9_Witness ==
  /\ ticks = 2
  /\ ir.is_connected
  /\ ~checkbox["speed"]
  /\ "speed" \notin plotted
  /\ plotted = Channels \ {"speed"}
  /\ telemetry.speed[199] = -5
  /\ telemetry.speed[200] = 80

\* C10: after every redraw the x-axis range is [0, 300] when
\* distance[last] <= 150 and [distance[last] - 150, distance[last] + 150]
\* otherwise; its width is always 300.
C10_XAxisRange ==
  ticks > 0 =>
    /\ telemetry.distance[200] <= 150 => xlim = <<0, 300>>
    /\ telemetry.distance[200] > 150 =>
         xlim = <<telemetry.distance[200] - 150, telemetry.distance[200] + 150>>
    /\ xlim[2] - xlim[1] = 300

\* a redraw after the car has passed 150 m
C10_Witness ==
  /\ ticks > 0
  /\ telemetry.distance[200] = 160
  /\ xlim = <<10, 310>>
====
